---- MODULE Spec2Model ----
(***************************************************************************)
(* Model of the character-grid compositor of mage (src/src/present.rs):    *)
(* Image with its three planes, the clipping arithmetic and the drawing    *)
(* primitives.                                                             *)
(*                                                                         *)
(* u32 values are kept as their residue modulo 2^32 of least magnitude: a  *)
(* small n >= 0 stands for n and a small n < 0 stands for 2^32 + n (the    *)
(* value `n as u32` has in Rust).  Unsigned order, carry and borrow are    *)
(* computed on these residues, so wrapping and checked arithmetic are both *)
(* exact for the values the model uses.                                    *)
(*                                                                         *)
(* Rust arithmetic on u32 panics on overflow when the build has overflow   *)
(* checks (debug profile) and wraps when it has not (release profile); the *)
(* build is the variable overflow_checks, chosen in Init.                  *)
(***************************************************************************)
EXTENDS Integers, Sequences, FiniteSets, TLC

VARIABLES
    width,            \* Image::width
    height,           \* Image::height
    fore_image,       \* Image::fore_image, cell index -> ink
    back_image,       \* Image::back_image, cell index -> paper
    text_image,       \* Image::text_image, cell index -> glyph
    overflow_checks,  \* TRUE: arithmetic overflow panics; FALSE: it wraps
    panicked,         \* the call has panicked (the thread unwinds)
    call,             \* the method called last and its arguments
    ret,              \* what that call returned
    old,              \* the three planes as they were before the call
    pc,               \* where run() is: a startup step, a phase of the loop
    result,           \* what run() returned to its caller
    control_flow,     \* the event loop's ControlFlow
    key_state,        \* run()'s KeyState
    fullscreen,       \* window.fullscreen().is_some()
    inner_size,       \* window.inner_size()
    redraw_requested, \* window.request_redraw() is pending
    render,           \* run()'s RenderState
    game,             \* what the host's callbacks have seen
    event             \* the event the callback handled last

grid_vars == <<width, height, fore_image, back_image, text_image,
               overflow_checks, panicked, call, ret, old>>

loop_vars == <<pc, result, control_flow, key_state, fullscreen, inner_size,
               redraw_requested, render, game, event>>

vars == <<width, height, fore_image, back_image, text_image,
          overflow_checks, panicked, call, ret, old,
          pc, result, control_flow, key_state, fullscreen, inner_size,
          redraw_requested, render, game, event>>

----------------------------------------------------------------------------
\* Bounds of the model

MaxDim == 3
MaxOff == 2
MaxSize == 3
MaxLen == 4

Dims == 1..MaxDim
Coords == (0 - MaxOff)..(MaxDim + 1)
Sizes == 0..MaxSize

Point(x, y) == [x |-> x, y |-> y]
Points == {Point(x, y) : x \in Coords, y \in Coords}

Char(c, ink, paper) == [ch |-> c, ink |-> ink, paper |-> paper]
Chars == {Char(35, 1, 2), Char(46, 3, 4)}
Inks == {5}
Papers == {6}

\* The text "HIJK..." cut to n bytes, as the sequence of its bytes
TextOfLen(n) == [j \in 1..n |-> 71 + j]
Texts == {TextOfLen(n) : n \in 0..MaxLen}

Space == 32

----------------------------------------------------------------------------
\* u32 arithmetic on residues

U32Lt(a, b) == IF (a < 0) = (b < 0) THEN a < b ELSE b < 0
U32Min(a, b) == IF U32Lt(b, a) THEN b ELSE a
AddOverflows(a, b) ==
    IF a < 0 /\ b < 0 THEN TRUE
    ELSE IF a >= 0 /\ b >= 0 THEN FALSE
    ELSE a + b >= 0
SubUnderflows(a, b) == U32Lt(a, b)

----------------------------------------------------------------------------
\* Option<usize>: None is the empty sequence, Some(i) the sequence <<i>>

None == << >>
Some(i) == <<i>>

PlaneLen == width * height
Cells == 0..(PlaneLen - 1)

\* The three planes as they stand, and as the image a method works on
Snapshot == [fore |-> fore_image, back |-> back_image, text |-> text_image]

AsImage(s) == [fore |-> s.fore, back |-> s.back, text |-> s.text, panic |-> FALSE]

Planes == AsImage(Snapshot)

----------------------------------------------------------------------------
\* Image::coords_to_index (x and y are u32)

\* A slip: the row stride taken from the height instead of the width
coords_to_index_HeightStride(x, y) ==
    IF U32Lt(x, width) /\ U32Lt(y, height)
    THEN Some(y * height + x)
    ELSE None

coords_to_index(x, y) ==
    IF U32Lt(x, width) /\ U32Lt(y, height)
    THEN Some(y * width + x)
    ELSE None

----------------------------------------------------------------------------
\* Image::clip

\* A slip: the size is never clamped to what is left of the grid
ClipAxis_NoClamp(o, size, limit) ==
    LET neg == o < 0
        size1 == IF neg THEN size + o ELSE size
        o1 == IF neg THEN 0 ELSE o
        ovf == neg /\ AddOverflows(size, o)
    IN  [ok |-> ~(overflow_checks /\ ovf),
         o |-> o1,
         size |-> size1]

\* A slip: the clamp is `min(width, self.width) - x`
ClipAxis_ClampThenSubtract(o, size, limit) ==
    LET neg == o < 0
        size1 == IF neg THEN size + o ELSE size
        o1 == IF neg THEN 0 ELSE o
        ovf == (neg /\ AddOverflows(size, o))
               \/ SubUnderflows(U32Min(size1, limit), o1)
    IN  [ok |-> ~(overflow_checks /\ ovf),
         o |-> o1,
         size |-> U32Min(size1, limit) - o1]

\* One axis of clip: `if x < 0 { width += x as u32; x = 0; }` and then
\* `width = min(width, self.width - x)`.  ok is FALSE when the addition or
\* the subtraction overflows in a build that checks overflow.
ClipAxis(o, size, limit) ==
    LET neg == o < 0
        size1 == IF neg THEN size + o ELSE size
        o1 == IF neg THEN 0 ELSE o
        ovf == (neg /\ AddOverflows(size, o)) \/ SubUnderflows(limit, o1)
    IN  [ok |-> ~(overflow_checks /\ ovf),
         o |-> o1,
         size |-> U32Min(size1, limit - o1)]

ClipPanic == [ok |-> FALSE, x |-> 0, y |-> 0, w |-> 0, h |-> 0]

clip(p, w, h) ==
    LET cx == ClipAxis(p.x, w, width)
        cy == ClipAxis(p.y, h, height)
    IN  IF cx.ok /\ cy.ok
        THEN [ok |-> TRUE, x |-> cx.o, y |-> cy.o, w |-> cx.size, h |-> cy.size]
        ELSE ClipPanic

----------------------------------------------------------------------------
\* Slices of a plane.  plane[i..i + n] panics unless i + n <= plane.len();
\* n is a usize made from a u32, so a negative residue is a length of 2^32 - |n|.

SliceOk(i, n) == n >= 0 /\ i + n <= PlaneLen

FillRange(plane, i, n, v) ==
    [k \in DOMAIN plane |-> IF i <= k /\ k < i + n THEN v ELSE plane[k]]

Panicked(img) == [img EXCEPT !.panic = TRUE]

\* The body of the row loop of draw_rect_filled
FillRow(img, i, w, ch) ==
    IF ~SliceOk(i, w) THEN Panicked(img)
    ELSE [fore |-> FillRange(img.fore, i, w, ch.ink),
          back |-> FillRange(img.back, i, w, ch.paper),
          text |-> FillRange(img.text, i, w, ch.ch),
          panic |-> FALSE]

\* (0..height).for_each(|_| { row; i += self.width }); a negative residue
\* of rows is a count near 2^32, which ends in the slice panic.
RECURSIVE FillRows(_, _, _, _, _)
FillRows(img, i, w, rows, ch) ==
    IF rows = 0 \/ img.panic THEN img
    ELSE FillRows(FillRow(img, i, w, ch), i + width, w, rows - 1, ch)

\* Image::draw_rect_filled.  A call on an image that has panicked is never
\* reached (draw_rect makes up to four calls in a row).
draw_rect_filled(img, p, w, h, ch) ==
    IF img.panic THEN img
    ELSE LET c == clip(p, w, h)
         IN  IF ~c.ok THEN Panicked(img)
             ELSE LET i == coords_to_index(c.x, c.y)
                  IN  IF i = None THEN img
                      ELSE FillRows(img, i[1], c.w, c.h, ch)

\* A slip: the grid's height passed for the width and the width for the height
clear_SwapsSize(img, ink, paper) ==
    draw_rect_filled(img, Point(0, 0), height, width, Char(Space, ink, paper))

\* Image::clear
clear(img, ink, paper) ==
    draw_rect_filled(img, Point(0, 0), width, height, Char(Space, ink, paper))

\* A slip: the coordinates passed to coords_to_index in the wrong order
draw_char_Transposed(img, p, ch) ==
    IF p.x >= 0 /\ p.y >= 0
    THEN LET i == coords_to_index(p.y, p.x)
         IN  IF i = None THEN img
             ELSE [fore |-> FillRange(img.fore, i[1], 1, ch.ink),
                   back |-> FillRange(img.back, i[1], 1, ch.paper),
                   text |-> FillRange(img.text, i[1], 1, ch.ch),
                   panic |-> FALSE]
    ELSE img

\* Image::draw_char
draw_char(img, p, ch) ==
    IF p.x >= 0 /\ p.y >= 0
    THEN LET i == coords_to_index(p.x, p.y)
         IN  IF i = None THEN img
             ELSE [fore |-> FillRange(img.fore, i[1], 1, ch.ink),
                   back |-> FillRange(img.back, i[1], 1, ch.paper),
                   text |-> FillRange(img.text, i[1], 1, ch.ch),
                   panic |-> FALSE]
    ELSE img

\* The glyph loop of draw_string: cell i + j takes text.as_bytes()[j]; the
\* index panics at the first j >= text.len(), after the cells before it
\* were written.
WriteText(plane, i, n, text) ==
    [k \in DOMAIN plane |->
        IF i <= k /\ k < i + n /\ k - i < Len(text) THEN text[k - i + 1]
        ELSE plane[k]]

\* Image::draw_string
draw_string(img, p, text, ink, paper) ==
    LET c == clip(p, Len(text), 1)
    IN  IF ~c.ok THEN Panicked(img)
        ELSE LET i == coords_to_index(c.x, c.y)
             IN  IF i = None THEN img
                 ELSE IF ~SliceOk(i[1], c.w) THEN Panicked(img)
                 ELSE [fore |-> FillRange(img.fore, i[1], c.w, ink),
                       back |-> FillRange(img.back, i[1], c.w, paper),
                       text |-> WriteText(img.text, i[1], c.w, text),
                       panic |-> c.w > Len(text)]

\* A slip: `&&` for `||` in the test for a rectangle too thin for an outline
draw_rect_BothThin(img, p, w, h, ch) ==
    IF w < 3 /\ h < 3
    THEN draw_rect_filled(img, p, w, h, ch)
    ELSE LET top == draw_rect_filled(img, p, w, 1, ch)
             bottom == draw_rect_filled(top, Point(p.x, p.y + h - 1), w, 1, ch)
             left == draw_rect_filled(bottom, Point(p.x, p.y + 1), 1, h - 2, ch)
         IN  draw_rect_filled(left, Point(p.x + w - 1, p.y + 1), 1, h - 2, ch)

\* Image::draw_rect
draw_rect(img, p, w, h, ch) ==
    IF w < 3 \/ h < 3
    THEN draw_rect_filled(img, p, w, h, ch)
    ELSE LET top == draw_rect_filled(img, p, w, 1, ch)
             bottom == draw_rect_filled(top, Point(p.x, p.y + h - 1), w, 1, ch)
             left == draw_rect_filled(bottom, Point(p.x, p.y + 1), 1, h - 2, ch)
         IN  draw_rect_filled(left, Point(p.x + w - 1, p.y + 1), 1, h - 2, ch)

----------------------------------------------------------------------------
\* The state machine: an Image over planes its caller owns, and one call
\* of one of its methods.

\* Contents the borrowed planes can have when the Image is made: all zero,
\* or every cell different.
Blank(n) == [k \in 0..(n - 1) |-> 0]
Marked(n, base) == [k \in 0..(n - 1) |-> base + k]

\* run() has not been called
LoopIdle ==
    /\ pc = "idle"
    /\ result = "none"
    /\ control_flow = "Poll"
    /\ key_state = [pressed |-> FALSE, shift |-> FALSE, ctrl |-> FALSE,
                    alt |-> FALSE, vkey |-> "None"]
    /\ fullscreen = FALSE
    /\ inner_size = [width |-> 0, height |-> 0]
    /\ redraw_requested = FALSE
    /\ render = << >>
    /\ game = << >>
    /\ event = "none"

Init ==
    /\ LoopIdle
    /\ width \in Dims
    /\ height \in Dims
    /\ overflow_checks \in BOOLEAN
    /\ \/ /\ fore_image = Blank(width * height)
          /\ back_image = Blank(width * height)
          /\ text_image = Blank(width * height)
       \/ /\ fore_image = Marked(width * height, 100)
          /\ back_image = Marked(width * height, 200)
          /\ text_image = Marked(width * height, 300)
    /\ panicked = FALSE
    /\ call = [op |-> "new"]
    /\ ret = None
    /\ old = [fore |-> fore_image, back |-> back_image, text |-> text_image]

Ready == call.op = "new" /\ ~panicked

\* The effect of a method that drew: the planes it leaves, whether it panicked
Drew(c, img) ==
    /\ call' = c
    /\ ret' = None
    /\ old' = Snapshot
    /\ fore_image' = img.fore
    /\ back_image' = img.back
    /\ text_image' = img.text
    /\ panicked' = img.panic
    /\ UNCHANGED <<width, height, overflow_checks>>
    /\ UNCHANGED loop_vars

\* The effect of a method that reads only: its result
Returned(c, r, p) ==
    /\ call' = c
    /\ ret' = r
    /\ old' = Snapshot
    /\ panicked' = p
    /\ UNCHANGED <<width, height, overflow_checks,
                   fore_image, back_image, text_image>>
    /\ UNCHANGED loop_vars

CoordsToIndex ==
    /\ Ready
    /\ \E x \in Coords, y \in Coords :
           Returned([op |-> "coords_to_index", x |-> x, y |-> y],
                    coords_to_index(x, y), FALSE)

Clip ==
    /\ Ready
    /\ \E p \in Points, w \in Sizes, h \in Sizes :
           Returned([op |-> "clip", p |-> p, w |-> w, h |-> h],
                    clip(p, w, h), ~clip(p, w, h).ok)

Clear ==
    /\ Ready
    /\ \E ink \in Inks, paper \in Papers :
           Drew([op |-> "clear", ink |-> ink, paper |-> paper],
                clear(Planes, ink, paper))

DrawChar ==
    /\ Ready
    /\ \E p \in Points, ch \in Chars :
           Drew([op |-> "draw_char", p |-> p, ch |-> ch],
                draw_char(Planes, p, ch))

DrawString ==
    /\ Ready
    /\ \E p \in Points, text \in Texts, ink \in Inks, paper \in Papers :
           Drew([op |-> "draw_string", p |-> p, text |-> text,
                 ink |-> ink, paper |-> paper],
                draw_string(Planes, p, text, ink, paper))

DrawRect ==
    /\ Ready
    /\ \E p \in Points, w \in Sizes, h \in Sizes, ch \in Chars :
           Drew([op |-> "draw_rect", p |-> p, w |-> w, h |-> h, ch |-> ch],
                draw_rect(Planes, p, w, h, ch))

DrawRectFilled ==
    /\ Ready
    /\ \E p \in Points, w \in Sizes, h \in Sizes, ch \in Chars :
           Drew([op |-> "draw_rect_filled", p |-> p, w |-> w, h |-> h, ch |-> ch],
                draw_rect_filled(Planes, p, w, h, ch))

Next ==
    \/ Clip
    \/ CoordsToIndex
    \/ Clear
    \/ DrawChar
    \/ DrawString
    \/ DrawRect
    \/ DrawRectFilled

Spec == Init /\ [][Next]_vars

----------------------------------------------------------------------------
\* run() of src/src/lib.rs and RenderState of src/src/render.rs: startup,
\* then the event loop.  winit calls run()'s closure once per event; in one
\* iteration it delivers the pending window events, then MainEventsCleared,
\* then RedrawRequested for a window whose redraw was requested, then
\* RedrawEventsCleared.  ControlFlow::Exit is sticky: once the closure has
\* left the control flow at Exit, winit hands it a scratch value, so a later
\* write of Poll is lost.  winit may still deliver the rest of the
\* iteration's events before LoopDestroyed, or go to LoopDestroyed at once.

MaxRebuilds == 2

WindowSizes == {[width |-> 0, height |-> 0], [width |-> 800, height |-> 600],
                [width |-> 640, height |-> 480]}
Formats == {"Bgra8UnormSrgb", "Rgba8UnormSrgb"}
VKeys == {"None", "Escape", "Return", "A"}
Modifiers == {[alt |-> FALSE, ctrl |-> FALSE, shift |-> FALSE],
              [alt |-> TRUE, ctrl |-> FALSE, shift |-> FALSE],
              [alt |-> TRUE, ctrl |-> TRUE, shift |-> TRUE]}
TickResults == {"Continue", "Stop"}
\* Ok(()) and the variants of wgpu::SwapChainError
FrameResults == {"Ok", "Lost", "OutOfMemory", "Outdated", "Timeout"}

NoRender == << >>

\* The image the compositor's variables hold while the loop is modelled
GridIdle ==
    /\ width = 1
    /\ height = 1
    /\ fore_image = Blank(1)
    /\ back_image = Blank(1)
    /\ text_image = Blank(1)
    /\ overflow_checks = FALSE
    /\ panicked = FALSE
    /\ call = [op |-> "new"]
    /\ ret = None
    /\ old = [fore |-> Blank(1), back |-> Blank(1), text |-> Blank(1)]

\* let mut key_state = KeyState { .. }
NewKeyState == [pressed |-> FALSE, shift |-> FALSE, ctrl |-> FALSE,
                alt |-> FALSE, vkey |-> "None"]

\* What the host's callbacks have seen: the calls of start, whether tick and
\* present were called, the result and the KeyState of the last tick, and
\* what was called after a tick returned Stop or a frame ran out of memory,
\* the flags of the latest ModifiersChanged event, and the calls the driver
\* made in the current iteration (tick, present, render, resize), in order
NewGame == [starts |-> 0, ticked |-> FALSE, presented |-> FALSE,
            last_tick |-> "none", tick_key |-> NewKeyState,
            tick_after_stop |-> FALSE,
            out_of_memory |-> FALSE, call_after_out_of_memory |-> FALSE,
            mods |-> [alt |-> FALSE, ctrl |-> FALSE, shift |-> FALSE],
            steps |-> << >>]

\* The event the closure was called with; a resize event carries its size,
\* RedrawRequested the result of the frame it submitted
Event(name) == [name |-> name, frame |-> "none", size |-> << >>]
ResizeEvent(name, size) == [name |-> name, frame |-> "none", size |-> size]
RedrawEvent(r) == [name |-> "RedrawRequested", frame |-> r, size |-> << >>]

LoopInit ==
    /\ GridIdle
    /\ pc = "load_font"
    /\ result = "none"
    /\ control_flow = "Poll"
    /\ key_state = NewKeyState
    /\ fullscreen = FALSE
    /\ inner_size \in WindowSizes \ {[width |-> 0, height |-> 0]}
    /\ redraw_requested = FALSE
    /\ render = NoRender
    /\ game = NewGame
    /\ event = Event("none")

\* device.create_swap_chain(&surface, &desc): a new swap chain made from desc
create_swap_chain(rs, desc) == [desc |-> desc, built |-> rs.swapchain.built + 1]

\* A size wgpu's create_swap_chain may refuse: the call then panics
\* (its errors are fatal), or the backend takes the size as it is
ZeroArea(size) == size.width = 0 \/ size.height = 0

\* RenderState::resize up to the call of create_swap_chain
SetSize(rs, new_size) ==
    [rs EXCEPT !.swapchain_desc.width = new_size.width,
               !.swapchain_desc.height = new_size.height]

\* RenderState::resize
resize(rs, new_size) ==
    LET sized == SetSize(rs, new_size)
    IN  [sized EXCEPT !.swapchain = create_swap_chain(rs, sized.swapchain_desc)]

\* RenderState::new, once adapter, device, queue and format are there
NewRenderState(size, format) ==
    LET desc == [usage |-> "RENDER_ATTACHMENT", format |-> format,
                 width |-> size.width, height |-> size.height,
                 present_mode |-> "Fifo"]
    IN  [surface |-> "surface", device |-> "device", queue |-> "queue",
         swapchain_desc |-> desc,
         swapchain |-> [desc |-> desc, built |-> 0],
         render_pipeline |-> "render_pipeline"]

\* game.start() called before the step that fails
Fail_AfterStart(e) ==
    /\ pc' = "returned"
    /\ result' = e
    /\ game' = [game EXCEPT !.starts = @ + 1]
    /\ UNCHANGED <<control_flow, key_state, fullscreen, inner_size,
                   redraw_requested, render, event>>
    /\ UNCHANGED grid_vars

\* `?`: run() returns the error to its caller
Fail(e) ==
    /\ pc' = "returned"
    /\ result' = e
    /\ UNCHANGED <<control_flow, key_state, fullscreen, inner_size,
                   redraw_requested, render, game, event>>
    /\ UNCHANGED grid_vars

Step(next) ==
    /\ pc' = next
    /\ UNCHANGED <<result, control_flow, key_state, fullscreen, inner_size,
                   redraw_requested, render, game, event>>
    /\ UNCHANGED grid_vars

LoadFont ==
    /\ pc = "load_font"
    /\ \/ Step("build_window")
       \/ Fail("BadFont")

BuildWindow ==
    /\ pc = "build_window"
    /\ \/ Step("request_adapter")
       \/ Fail("OSError")

RequestAdapter ==
    /\ pc = "request_adapter"
    /\ \/ Step("request_device")
       \/ Fail("BadAdapter")

RequestDevice ==
    /\ pc = "request_device"
    /\ \/ Step("preferred_format")
       \/ Fail("BadDevice")

CreateRenderState ==
    /\ pc = "preferred_format"
    /\ \/ \E format \in Formats :
            /\ render' = NewRenderState(inner_size, format)
            /\ pc' = "start"
            /\ UNCHANGED <<result, control_flow, key_state, fullscreen,
                           inner_size, redraw_requested, game, event>>
            /\ UNCHANGED grid_vars
       \/ Fail("BadSwapChainFormat")

\* The loop entered without the call of game.start()
Start_Skipped ==
    /\ pc = "start"
    /\ key_state' = NewKeyState
    /\ pc' = "events"
    /\ UNCHANGED <<result, control_flow, fullscreen, inner_size,
                   redraw_requested, render, game, event>>
    /\ UNCHANGED grid_vars

\* let mut key_state = ..; game.start(); event_loop.run(..)
Start ==
    /\ pc = "start"
    /\ key_state' = NewKeyState
    /\ game' = [game EXCEPT !.starts = @ + 1]
    /\ pc' = "events"
    /\ UNCHANGED <<result, control_flow, fullscreen, inner_size,
                   redraw_requested, render, event>>
    /\ UNCHANGED grid_vars

\* The closure without its first lines
Prologue_KeepsKey(ks) == ks

\* The closure's first lines: key_state.pressed = false; key_state.vkey = None
Prologue(ks) == [ks EXCEPT !.pressed = FALSE, !.vkey = "None"]

\* The callback's reset and assignment taken as they stand
AfterCallback_Overwrites(flow) == flow

\* What the loop's control flow is after a callback that began with
\* `*control_flow = ControlFlow::Poll` and left its parameter at flow
AfterCallback(flow) == IF control_flow = "Exit" THEN "Exit" ELSE flow

\* Escape matched without `pressed: true`
KeyFlow_AnyEscape(ks) == IF ks.vkey = "Escape" THEN "Exit" ELSE "Poll"

\* The `match key_state` of the KeyboardInput handler
KeyFlow(ks) ==
    IF ks.pressed /\ ks.vkey = "Escape" THEN "Exit" ELSE "Poll"

TogglesFullscreen(ks) ==
    /\ ~(ks.pressed /\ ks.vkey = "Escape")
    /\ ks.pressed /\ ~ks.shift /\ ~ks.ctrl /\ ks.alt /\ ks.vkey = "Return"

\* if let TickResult::Stop = simulate(..) { *control_flow = ControlFlow::Exit }
TickFlow(r) == IF r = "Stop" THEN "Exit" ELSE "Poll"

\* OutOfMemory taken by the arm that only logs
FrameFlow_OnlyLogs(r) == "Poll"

\* The arms of `match render.render()` that set the control flow
FrameFlow(r) == IF r = "OutOfMemory" THEN "Exit" ELSE "Poll"

\* Every error rebuilding the swap chain
FrameRecovery_AnyError(rs, r, size) ==
    IF r # "Ok" /\ rs.swapchain.built < MaxRebuilds THEN resize(rs, size) ELSE rs

\* The arm of `match render.render()` that rebuilds the swap chain
FrameRecovery(rs, r, size) == IF r = "Lost" THEN resize(rs, size) ELSE rs

InLoop == pc \in {"events", "redraw"}

CloseRequested ==
    /\ pc = "events"
    /\ event' = Event("CloseRequested")
    /\ key_state' = Prologue(key_state)
    /\ control_flow' = AfterCallback("Exit")
    /\ UNCHANGED <<pc, result, fullscreen, inner_size, redraw_requested,
                   render, game>>
    /\ UNCHANGED grid_vars

KeyboardInput ==
    /\ pc = "events"
    /\ \E pressed \in BOOLEAN, vkey \in VKeys, monitor \in BOOLEAN :
         LET ks == [Prologue(key_state) EXCEPT !.pressed = pressed,
                                               !.vkey = vkey]
         IN  /\ key_state' = ks
             /\ control_flow' = AfterCallback(KeyFlow(ks))
             /\ fullscreen' = IF TogglesFullscreen(ks)
                              THEN (IF fullscreen THEN FALSE
                                    ELSE monitor)
                              ELSE fullscreen
    /\ event' = Event("KeyboardInput")
    /\ UNCHANGED <<pc, result, inner_size, redraw_requested, render, game>>
    /\ UNCHANGED grid_vars

ModifiersChanged ==
    /\ pc = "events"
    /\ \E mods \in Modifiers :
         /\ key_state' = [Prologue(key_state) EXCEPT !.alt = mods.alt,
                                                     !.ctrl = mods.ctrl,
                                                     !.shift = mods.shift]
         /\ game' = [game EXCEPT !.mods = mods]
    /\ event' = Event("ModifiersChanged")
    /\ control_flow' = AfterCallback("Poll")
    /\ UNCHANGED <<pc, result, fullscreen, inner_size, redraw_requested,
                   render>>
    /\ UNCHANGED grid_vars

\* WindowEvent::Resized(new_size) and ScaleFactorChanged { new_inner_size }:
\* the window has size `now` when the event for new_size is handled
Resized(name) ==
    /\ pc = "events"
    /\ render.swapchain.built < MaxRebuilds
    /\ \E new_size \in WindowSizes, now \in WindowSizes :
         /\ inner_size' = now
         /\ event' = ResizeEvent(name, new_size)
         /\ \/ /\ render' = resize(render, new_size)
               /\ pc' = pc
            \/ /\ ZeroArea(new_size)
               /\ render' = SetSize(render, new_size)
               /\ pc' = "panicked"
    /\ game' = [game EXCEPT !.steps = Append(@, "resize")]
    /\ key_state' = Prologue(key_state)
    /\ control_flow' = AfterCallback("Poll")
    /\ UNCHANGED <<result, fullscreen, redraw_requested>>
    /\ UNCHANGED grid_vars

\* Any event the closure has no arm for
IgnoredEvent ==
    /\ pc = "events"
    /\ event' = Event("ignored")
    /\ key_state' = Prologue(key_state)
    /\ control_flow' = AfterCallback("Poll")
    /\ UNCHANGED <<pc, result, fullscreen, inner_size, redraw_requested,
                   render, game>>
    /\ UNCHANGED grid_vars

\* Event::MainEventsCleared: simulate() calls game.tick with &key_state
MainEventsCleared ==
    /\ pc = "events"
    /\ \E r \in TickResults :
         /\ game' = [game EXCEPT
                !.ticked = TRUE, !.last_tick = r,
                !.tick_key = Prologue(key_state),
                !.tick_after_stop = @ \/ game.last_tick = "Stop",
                !.call_after_out_of_memory = @ \/ game.out_of_memory,
                !.steps = Append(@, "tick")]
         /\ control_flow' = AfterCallback(TickFlow(r))
    /\ key_state' = Prologue(key_state)
    /\ redraw_requested' = TRUE
    /\ event' = Event("MainEventsCleared")
    /\ pc' = "redraw"
    /\ UNCHANGED <<result, fullscreen, inner_size, render>>
    /\ UNCHANGED grid_vars

\* The calls of the RedrawRequested arm, in order
RedrawSteps_SubmitsFirst(r) ==
    <<"render", "present">> \o (IF r = "Lost" THEN <<"resize">> ELSE << >>)

RedrawSteps(r) ==
    <<"present", "render">> \o (IF r = "Lost" THEN <<"resize">> ELSE << >>)

\* Event::RedrawRequested: present(), then render.render() and its match
RedrawRequested ==
    /\ pc = "redraw"
    /\ redraw_requested
    /\ \E r \in FrameResults :
         /\ r = "Lost" => render.swapchain.built < MaxRebuilds
         /\ \/ /\ render' = FrameRecovery(render, r, inner_size)
               /\ pc' = pc
            \/ /\ r = "Lost" /\ ZeroArea(inner_size)
               /\ render' = SetSize(render, inner_size)
               /\ pc' = "panicked"
         /\ control_flow' = AfterCallback(FrameFlow(r))
         /\ event' = RedrawEvent(r)
         /\ game' = [game EXCEPT
                !.presented = TRUE,
                !.call_after_out_of_memory = @ \/ game.out_of_memory,
                !.out_of_memory = @ \/ r = "OutOfMemory",
                !.steps = @ \o RedrawSteps(r)]
    /\ key_state' = Prologue(key_state)
    /\ redraw_requested' = FALSE
    /\ UNCHANGED <<result, fullscreen, inner_size>>
    /\ UNCHANGED grid_vars

\* Event::RedrawEventsCleared ends the iteration
RedrawEventsCleared ==
    /\ pc = "redraw"
    /\ ~redraw_requested
    /\ event' = Event("RedrawEventsCleared")
    /\ key_state' = Prologue(key_state)
    /\ control_flow' = AfterCallback("Poll")
    /\ pc' = IF control_flow = "Exit" THEN "destroying" ELSE "events"
    /\ game' = [game EXCEPT !.steps = << >>]
    /\ UNCHANGED <<result, fullscreen, inner_size, redraw_requested,
                   render>>
    /\ UNCHANGED grid_vars

\* Event::LoopDestroyed, the last event; event_loop.run never returns
LoopDestroyed ==
    /\ pc \in {"events", "redraw", "destroying"}
    /\ control_flow = "Exit"
    /\ event' = Event("LoopDestroyed")
    /\ key_state' = Prologue(key_state)
    /\ pc' = "exited"
    /\ UNCHANGED <<result, control_flow, fullscreen, inner_size,
                   redraw_requested, render, game>>
    /\ UNCHANGED grid_vars

LoopNext ==
    \/ LoadFont
    \/ BuildWindow
    \/ RequestAdapter
    \/ RequestDevice
    \/ CreateRenderState
    \/ Start
    \/ CloseRequested
    \/ KeyboardInput
    \/ ModifiersChanged
    \/ Resized("Resized")
    \/ Resized("ScaleFactorChanged")
    \/ IgnoredEvent
    \/ MainEventsCleared
    \/ RedrawRequested
    \/ RedrawEventsCleared
    \/ LoopDestroyed

LoopSpec == LoopInit /\ [][LoopNext]_vars

\* winit drains the pending events and ends every iteration it begins
FairLoopSpec ==
    /\ LoopSpec
    /\ WF_vars(MainEventsCleared)
    /\ WF_vars(RedrawRequested)
    /\ WF_vars(RedrawEventsCleared)
    /\ WF_vars(LoopDestroyed)

----------------------------------------------------------------------------
\* Vocabulary of the properties: cells and rectangles as the grid's user
\* sees them, in plain integers.

CellX(k) == k % width
CellY(k) == k \div width

\* Cell k lies in the rectangle [p.x, p.x + w) x [p.y, p.y + h)
InRect(k, p, w, h) ==
    /\ p.x <= CellX(k) /\ CellX(k) < p.x + w
    /\ p.y <= CellY(k) /\ CellY(k) < p.y + h

Overlaps(p, w, h) == \E k \in Cells : InRect(k, p, w, h)

\* Entirely left of, above, right of or below the grid
FullyOutside(p, w, h) ==
    \/ p.x + w <= 0
    \/ p.y + h <= 0
    \/ p.x >= width
    \/ p.y >= height

CellIs(k, ink, paper, glyph) ==
    /\ fore_image[k] = ink
    /\ back_image[k] = paper
    /\ text_image[k] = glyph

CellKept(k) == CellIs(k, old.fore[k], old.back[k], old.text[k])

PlanesKept == \A k \in Cells : CellKept(k)

----------------------------------------------------------------------------
\* C1: draw_rect_filled(p, w, h, ch) of a rectangle that overlaps the grid
\* sets exactly the grid cells inside the rectangle to ch's ink, paper and
\* glyph and leaves every other cell of the three planes as it was.
C1_FilledRectExact ==
    (call.op = "draw_rect_filled" /\ Overlaps(call.p, call.w, call.h)) =>
        /\ ~panicked
        /\ \A k \in Cells :
              IF InRect(k, call.p, call.w, call.h)
              THEN CellIs(k, call.ch.ink, call.ch.paper, call.ch.ch)
              ELSE CellKept(k)

\* C2: clip of a rectangle that lies fully outside the grid returns zero
\* width or zero height.
C2_OutsideClipsToZero ==
    (call.op = "clip" /\ FullyOutside(call.p, call.w, call.h)) =>
        ret.ok /\ (ret.w = 0 \/ ret.h = 0)

\* C3: draw_rect_filled of a rectangle that lies fully outside the grid
\* leaves the three planes unchanged.
C3_OutsideRectDrawsNothing ==
    (call.op = "draw_rect_filled" /\ FullyOutside(call.p, call.w, call.h)) =>
        ~panicked /\ PlanesKept

\* The start point of a draw_string call is a cell of the grid
OnGrid(p) == 0 <= p.x /\ p.x < width /\ 0 <= p.y /\ p.y < height

Min(a, b) == IF a < b THEN a ELSE b

\* C4: draw_string from an on-grid start (x, y) writes exactly
\* min(text length, width - x) cells: cell (x + j, y) takes glyph text[j],
\* the ink and the paper; every other cell is untouched (no wrapping).
C4_StringRunExact ==
    (call.op = "draw_string" /\ OnGrid(call.p)) =>
        LET n == Min(Len(call.text), width - call.p.x)
            start == call.p.y * width + call.p.x
        IN  /\ ~panicked
            /\ \A k \in Cells :
                  IF start <= k /\ k < start + n
                  THEN CellIs(k, call.ink, call.paper, call.text[k - start + 1])
                  ELSE CellKept(k)

\* A string longer than the rest of its row, on a row that has a next row
C4_Witness ==
    /\ call.op = "draw_string" /\ OnGrid(call.p)
    /\ call.p.x > 0
    /\ Len(call.text) > width - call.p.x
    /\ call.p.y + 1 < height
    /\ ~panicked
    /\ fore_image # old.fore

\* C5: draw_string whose row is outside the grid, or whose whole run is
\* off-grid, changes no cell.
C5_OffGridStringDrawsNothing ==
    (/\ call.op = "draw_string"
     /\ \/ call.p.y < 0
        \/ call.p.y >= height
        \/ call.p.x >= width
        \/ call.p.x + Len(call.text) <= 0) =>
        ~panicked /\ PlanesKept

DrawingOps == {"draw_char", "draw_string", "draw_rect", "draw_rect_filled", "clear"}

\* C6: no drawing primitive faults, whatever the point, the size and the
\* text: no slice or byte index out of range, no arithmetic panic.
C6_DrawingNeverFaults ==
    call.op \in DrawingOps => ~panicked

\* u32 x is at or beyond the limit (a negative residue is near 2^32)
U32AtLeast(x, limit) == x < 0 \/ x >= limit

\* C7: coords_to_index(x, y) is None exactly when x >= width or
\* y >= height; otherwise it is y*width + x, below width*height, and no
\* other in-range coordinate has the same index.
C7_CoordsToIndex ==
    call.op = "coords_to_index" =>
        /\ (ret = None) <=> (U32AtLeast(call.x, width) \/ U32AtLeast(call.y, height))
        /\ ret # None =>
              /\ ret = Some(call.y * width + call.x)
              /\ ret[1] \in Cells
              /\ \A x \in 0..(width - 1), y \in 0..(height - 1) :
                    coords_to_index(x, y) = ret => (x = call.x /\ y = call.y)

\* An index on a row below the first, in a grid wider than one cell
C7_Witness ==
    /\ call.op = "coords_to_index"
    /\ ret # None
    /\ call.y > 0 /\ call.x > 0
    /\ width # height

\* C8: clip is idempotent: clipping the rectangle clip returned gives
\* that rectangle again.
C8_ClipIdempotent ==
    (call.op = "clip" /\ ret.ok) =>
        clip(Point(ret.x, ret.y), ret.w, ret.h) = ret

\* A clip that moved the origin and cut the size
C8_Witness ==
    /\ call.op = "clip" /\ ret.ok
    /\ call.p.x < 0 /\ ret.x = 0
    /\ ret.w # call.w /\ ret.w > 0
    /\ ret.h # call.h

\* C9: draw_rect with w < 3 or h < 3 leaves the planes as draw_rect_filled
\* with the same arguments leaves them.
C9_ThinRectIsFilled ==
    (call.op = "draw_rect" /\ (call.w < 3 \/ call.h < 3)) =>
        LET img == draw_rect_filled(AsImage(old),
                                    call.p, call.w, call.h, call.ch)
        IN  /\ fore_image = img.fore
            /\ back_image = img.back
            /\ text_image = img.text
            /\ panicked = img.panic

\* A rectangle of no width and full height whose rows are on the grid
C9_Witness ==
    /\ call.op = "draw_rect"
    /\ call.w = 0 /\ call.h >= 3
    /\ OnGrid(call.p) /\ call.p.y + 1 < height
    /\ ~panicked
    /\ PlanesKept

\* Cell k lies on the one-cell-thick border of the rectangle
OnBorder(k, p, w, h) ==
    /\ InRect(k, p, w, h)
    /\ \/ CellX(k) = p.x
       \/ CellX(k) = p.x + w - 1
       \/ CellY(k) = p.y
       \/ CellY(k) = p.y + h - 1

\* C10: for w >= 3 and h >= 3, draw_rect writes ch to exactly the on-grid
\* cells of the border of the rectangle; its interior and every cell
\* outside it are unchanged.
C10_OutlineExact ==
    (call.op = "draw_rect" /\ call.w >= 3 /\ call.h >= 3) =>
        /\ ~panicked
        /\ \A k \in Cells :
              IF OnBorder(k, call.p, call.w, call.h)
              THEN CellIs(k, call.ch.ink, call.ch.paper, call.ch.ch)
              ELSE CellKept(k)

\* C11: draw_char(p, ch) with p on the grid changes exactly the cell at
\* index p.y*width + p.x, to ch's ink, paper and glyph; with p off the grid
\* it changes no cell.
C11_DrawCharOneCell ==
    call.op = "draw_char" =>
        /\ ~panicked
        /\ IF OnGrid(call.p)
           THEN \A k \in Cells :
                   IF k = call.p.y * width + call.p.x
                   THEN CellIs(k, call.ch.ink, call.ch.paper, call.ch.ch)
                   ELSE CellKept(k)
           ELSE PlanesKept

\* A character drawn off the diagonal of a grid that is not square
C11_Witness ==
    /\ call.op = "draw_char" /\ OnGrid(call.p)
    /\ call.p.x # call.p.y
    /\ width # height
    /\ fore_image # old.fore

\* C12: after clear(ink, paper) every cell has the space glyph, the ink and
\* the paper: the planes equal those draw_rect_filled((0,0), width, height,
\* Char(' ', ink, paper)) leaves.
C12_ClearFillsGrid ==
    call.op = "clear" =>
        LET img == draw_rect_filled(AsImage(old), Point(0, 0), width, height,
                                    Char(Space, call.ink, call.paper))
        IN  /\ ~panicked
            /\ \A k \in Cells : CellIs(k, call.ink, call.paper, Space)
            /\ Snapshot = [fore |-> img.fore, back |-> img.back, text |-> img.text]
            /\ ~img.panic

\* A clear of a grid that is not square and held other contents
C12_Witness ==
    /\ call.op = "clear"
    /\ width # height
    /\ old.fore = Marked(PlaneLen, 100)
    /\ ~panicked

\* ---------------------------------------------------------------------
\* Claims about the loop driver
\* ---------------------------------------------------------------------

\* The closure was just called with RedrawRequested: present() ran
Presented == event.name = "RedrawRequested"

\* C13: present is called only if the most recent tick returned Continue;
\* once a tick has returned Stop, present is never called again.
C13_PresentOnlyAfterContinue ==
    Presented => game.last_tick = "Continue"

\* The loop is over: LoopDestroyed was delivered, or a callback panicked
LoopEnded == pc \in {"exited", "panicked"}

\* C14: when tick returns Stop the exit request stays (no later callback's
\* reset to Poll undoes it), tick is never called again, and the loop ends.
C14_StopEndsLoop ==
    /\ [](game.last_tick = "Stop" => control_flow = "Exit")
    /\ [](~game.tick_after_stop)
    /\ (game.last_tick = "Stop") ~> LoopEnded

\* The loop ended after a tick that returned Stop and one more callback that
\* began with the reset to Poll
C14_Witness ==
    /\ pc = "exited"
    /\ game.last_tick = "Stop"
    /\ game.presented

\* C15: start is called exactly once per run, before the first tick and
\* before the first present.
C15_StartOnceFirst ==
    /\ game.starts <= 1
    /\ (game.ticked \/ game.presented) => game.starts = 1
    /\ pc \in {"events", "redraw", "destroying", "exited"} => game.starts = 1

\* A run whose loop ended after ticks and presents
C15_Witness ==
    /\ pc = "exited"
    /\ game.ticked /\ game.presented
    /\ game.starts = 1

\* This step is the RedrawRequested callback, and render.render() returned r
FrameSubmitted(r) ==
    /\ pc = "redraw"
    /\ redraw_requested /\ ~redraw_requested'
    /\ event'.frame = r

\* The closure was just called with RedrawRequested and render() returned r
FrameHandled(r) == Presented /\ event.frame = r

\* C16: a frame submission that reports Lost rebuilds the swap chain in the
\* same callback at the window's current size and leaves the control flow as
\* it was; while no exit is requested the next iteration requests a redraw
\* and the frame is submitted again.
C16_LostRebuildsAndRetries ==
    /\ [][FrameSubmitted("Lost") =>
            /\ render'.swapchain_desc.width = inner_size.width
            /\ render'.swapchain_desc.height = inner_size.height
            /\ render'.swapchain.desc = render'.swapchain_desc
            /\ render'.swapchain.built = render.swapchain.built + 1
            /\ control_flow' = control_flow
            /\ inner_size' = inner_size]_vars
    /\ (FrameHandled("Lost") /\ control_flow = "Poll")
          ~> (redraw_requested \/ control_flow = "Exit")
    /\ redraw_requested ~> (Presented \/ pc = "exited")

\* C17: a frame submission that reports OutOfMemory requests exit; no tick,
\* present or frame submission follows it and the loop ends.
C17_OutOfMemoryEndsLoop ==
    /\ [](game.out_of_memory => control_flow = "Exit")
    /\ [](~game.call_after_out_of_memory)
    /\ game.out_of_memory ~> (pc = "exited")

\* The loop ended on OutOfMemory, its last tick having returned Continue
C17_Witness ==
    /\ pc = "exited"
    /\ game.out_of_memory
    /\ game.last_tick = "Continue"

\* The errors of render.render() the match has no arm of their own for
OtherErrors == FrameResults \ {"Ok", "Lost", "OutOfMemory"}

\* C18: a frame submission that fails with another error changes nothing:
\* the descriptor and the swap chain stay, the control flow stays, and
\* unless exit was requested before it the loop begins its next iteration,
\* whose events end with the next tick.
C18_OtherErrorsDropFrame ==
    /\ [][\A r \in OtherErrors : FrameSubmitted(r) =>
            /\ render' = render
            /\ control_flow' = control_flow
            /\ UNCHANGED <<pc, result, fullscreen, inner_size>>]_vars
    /\ (\E r \in OtherErrors : FrameHandled(r) /\ control_flow = "Poll")
          ~> (pc = "events" /\ control_flow = "Poll")

\* An error of the other kind was handled while the swap chain had another
\* size than the window, and the loop goes on
C18_Witness ==
    /\ FrameHandled("Timeout")
    /\ control_flow = "Poll"
    /\ render.swapchain_desc.width # inner_size.width

ResizeEvents == {"Resized", "ScaleFactorChanged"}

\* What of a RenderState no resize may touch
Untouched(rs) ==
    [surface |-> rs.surface, device |-> rs.device, queue |-> rs.queue,
     render_pipeline |-> rs.render_pipeline,
     usage |-> rs.swapchain_desc.usage,
     format |-> rs.swapchain_desc.format,
     present_mode |-> rs.swapchain_desc.present_mode]

\* C19: resize(new_size) makes new_size the descriptor's width and height
\* and builds a new swap chain from that descriptor; whatever the resizes,
\* the format, the present mode (Fifo), the surface, the device, the queue
\* and the pipeline stay as RenderState::new made them.
C19_ResizeOnlySizes ==
    [][/\ event'.name \in ResizeEvents =>
            /\ render'.swapchain_desc.width = event'.size.width
            /\ render'.swapchain_desc.height = event'.size.height
            /\ render'.swapchain.desc = render'.swapchain_desc
            /\ render'.swapchain.built = render.swapchain.built + 1
       /\ render # NoRender =>
            /\ Untouched(render') = Untouched(render)
            /\ render'.swapchain_desc.present_mode = "Fifo"]_vars

\* The error run() returns when the startup step fails
StartupError(step) ==
    CASE step = "load_font" -> "BadFont"
      [] step = "build_window" -> "OSError"
      [] step = "request_adapter" -> "BadAdapter"
      [] step = "request_device" -> "BadDevice"
      [] step = "preferred_format" -> "BadSwapChainFormat"

\* C20: a startup step that fails makes run() return that step's error; the
\* run is then over, and start, tick and present were never called.
C20_StartupFailureReturns ==
    /\ [](result # "none" =>
            /\ pc = "returned"
            /\ game = NewGame
            /\ event = Event("none"))
    /\ [][/\ pc # "returned"
          /\ pc' = "returned" => result' = StartupError(pc)]_vars
    /\ [][pc # "returned"]_vars

\* run() returned the last error startup can fail with
C20_Witness ==
    /\ pc = "returned"
    /\ result = "BadSwapChainFormat"

\* C22: the rectangle (x, y, w', h') clip returns lies on the grid,
\* x + w' <= width and y + h' <= height, and is no larger than the rectangle
\* asked for, w' <= w and h' <= h.
C22_ClipOnGrid ==
    (call.op = "clip" /\ ret.ok) =>
        /\ ret.w >= 0 /\ ret.x + ret.w <= width
        /\ ret.h >= 0 /\ ret.y + ret.h <= height
        /\ ~U32Lt(call.w, ret.w)
        /\ ~U32Lt(call.h, ret.h)

\* C21: resizing the surface to 0x0 and back panics on neither resize and
\* leaves the loop running, so that the frame after the second resize is
\* submitted to a swap chain made from the descriptor at the size asked for.
C21_ZeroSizeResizeIsSafe ==
    /\ pc # "panicked"
    /\ event.name \in ResizeEvents =>
         /\ pc = "events"
         /\ render.swapchain_desc.width = event.size.width
         /\ render.swapchain_desc.height = event.size.height
         /\ render.swapchain.desc = render.swapchain_desc

Steps == game.steps

\* C23: in every iteration the calls come in the order tick, present, frame
\* submission: each frame submission follows a present directly, there is
\* one present, and a tick of the same iteration comes before it.
C23_TickPresentSubmit ==
    \A i \in DOMAIN Steps :
        /\ Steps[i] = "render" => i > 1 /\ Steps[i - 1] = "present"
        /\ Steps[i] = "present" =>
              /\ \E j \in 1..(i - 1) : Steps[j] = "tick"
              /\ \A j \in DOMAIN Steps : Steps[j] = "present" => j = i
              /\ i < Len(Steps) /\ Steps[i + 1] = "render"

\* An iteration with a resize before its tick and Lost at its frame
C23_Witness ==
    Steps = <<"resize", "tick", "present", "render", "resize">>

\* C24: the control flow becomes Exit only in the callback of CloseRequested,
\* of a press of Escape, of a tick that returned Stop, or of a frame
\* submission that returned OutOfMemory.
C24_ExitOnlyOnFour ==
    [][(control_flow # "Exit" /\ control_flow' = "Exit") =>
          \/ event'.name = "CloseRequested"
          \/ /\ event'.name = "KeyboardInput"
             /\ key_state'.pressed /\ key_state'.vkey = "Escape"
          \/ event'.name = "MainEventsCleared" /\ game'.last_tick = "Stop"
          \/ event'.name = "RedrawRequested" /\ event'.frame = "OutOfMemory"
      ]_vars

\* Exit was requested by a press of Escape after a resize and a frame that
\* met Lost
C24_Witness ==
    /\ control_flow = "Exit"
    /\ event.name = "KeyboardInput"
    /\ key_state.pressed /\ key_state.vkey = "Escape"
    /\ render.swapchain.built = 2
    /\ game.presented

\* C25: the KeyState every tick is passed has pressed = false and
\* vkey = None, and the alt, ctrl and shift of the latest ModifiersChanged.
C25_TickSeesNoKey ==
    /\ game.ticked => ~game.tick_key.pressed /\ game.tick_key.vkey = "None"
    /\ event.name = "MainEventsCleared" =>
        game.tick_key = [pressed |-> FALSE, vkey |-> "None",
                         alt |-> game.mods.alt, ctrl |-> game.mods.ctrl,
                         shift |-> game.mods.shift]

\* A tick, the first call of its iteration, with alt held and ctrl not
C25_Witness ==
    /\ event.name = "MainEventsCleared"
    /\ game.tick_key.alt /\ ~game.tick_key.ctrl
    /\ game.steps = <<"tick">>

====
